---- MODULE Spec2Model ----
(***************************************************************************)
(* Model of the Woods repository: the two crawlers (locations.main and     *)
(* app.main), the normalizer script (appender.main), the dashboard's PDF   *)
(* fetch flows (map_woodlands) and the text parsers.                       *)
(*                                                                         *)
(* Texts are sequences of one-character strings, so that lower(), strip(), *)
(* replace() and the regular expressions are computed on characters.       *)
(***************************************************************************)
EXTENDS Integers, Sequences, FiniteSets, TLC

VARIABLES
    prog,            \* which script runs: "locations", "app", "appender", "dashboard", "parse"
    pc,              \* position of the running script
    \* ---- crawlers (locations.main, app.main)
    page,            \* page number of the search loop
    seen,            \* seen / seen_detail_pages
    resp,            \* status code and first h1 of the last search response
    detail_links,    \* card links of the current page
    idx,             \* position of the for loop in detail_links (1-based)
    rows,            \* locations.main: records collected so far
    total_downloads, \* app.main: counter
    save_dir,        \* app.main: files of SAVE_DIR, name -> content
    out_csv,         \* locations.main: rows written to OUT_CSV (NotWritten before)
    burst,           \* requests issued since the last time.sleep
    max_burst,       \* largest number of requests issued with no time.sleep in between
    n_req,           \* number of outbound requests issued so far
    tried,           \* per URL: "no", or the outcome of processing its detail page
    n_tries,         \* per URL: how many times its detail page was requested
    listed,          \* URLs returned by find_card_links so far
    \* ---- a call of one of the parsers
    cell,            \* the cell value given to parse_acres / parse_price_to_int
    dom,             \* the text nodes of the page given to extract_gps
    result,          \* [fn, ...]: what the call returned
    sites_df,        \* the listings given to annotate_min_distance_to_cities
    cities_df,       \* the reference cities given to annotate_min_distance_to_cities
    \* ---- appender.main
    csv_file,        \* the input CSV on disk
    csv_before,      \* the input CSV as it was when the script started
    backup_file,     \* the timestamped backup on disk
    df,              \* the DataFrame in memory
    exit_msg,        \* message of the SystemExit or exception that ended the script, "" if none
    csv_writes,      \* how many times the input path was opened for writing
    \* ---- the dashboard's PDF panel (map_woodlands)
    f_sites,         \* the filtered listings, by URL, in table order
    pdfs_dir,        \* files of PDFS_DIR, name -> content
    pdf_gets,        \* names of the PDFs requested by the last interaction, in order
    subset,          \* bulk download: the rows to process
    saved_paths,     \* bulk download: saved_paths
    errors,          \* bulk download: errors
    zip_names        \* bulk download: entries of the archive

parseVars == <<cell, dom, result, sites_df, cities_df>>

appenderVars == <<csv_file, csv_before, backup_file, df, exit_msg, csv_writes>>

dashVars == <<f_sites, pdfs_dir, pdf_gets, subset, saved_paths, errors, zip_names>>

crawlVars == <<page, seen, resp, detail_links, idx, rows, total_downloads, save_dir,
               out_csv, burst, max_burst, n_req, tried, n_tries, listed>>

vars == <<prog, pc, crawlVars, parseVars, appenderVars, dashVars>>

----------------------------------------------------------------------------
(* Bounds of the model *)

MaxPage == 2
MaxLinks == 2

----------------------------------------------------------------------------
(* Texts *)

Max(a, b) == IF a >= b THEN a ELSE b
Min(a, b) == IF a <= b THEN a ELSE b

RECURSIVE Concat(_)
Concat(ss) == IF ss = <<>> THEN <<>> ELSE Head(ss) \o Concat(Tail(ss))

UpperToLower == [c \in {"A", "B", "C", "E", "G", "O", "P", "R", "S"} |->
                   CASE c = "A" -> "a" [] c = "B" -> "b" [] c = "C" -> "c" [] c = "E" -> "e"
                     [] c = "G" -> "g" [] c = "O" -> "o" [] c = "P" -> "p"
                     [] c = "R" -> "r" [] c = "S" -> "s"]

\* str.lower()
Lower(s) == [k \in 1..Len(s) |-> IF s[k] \in DOMAIN UpperToLower THEN UpperToLower[s[k]] ELSE s[k]]

\* s[i:i+len(w)] == w   (i is 1-based)
MatchAt(s, i, w) ==
    /\ i >= 1
    /\ i + Len(w) - 1 <= Len(s)
    /\ \A k \in 1..Len(w) : s[i + k - 1] = w[k]

\* w in s
Contains(s, w) == \E i \in 1..(Len(s) + 1) : MatchAt(s, i, w)

\* s.startswith(w)
StartsWith(s, w) == MatchAt(s, 1, w)

IsSpace(c) == c \in {" "}

RECURSIVE LStrip(_)
LStrip(s) == IF s # <<>> /\ IsSpace(Head(s)) THEN LStrip(Tail(s)) ELSE s

RECURSIVE RStrip(_)
RStrip(s) == IF s # <<>> /\ IsSpace(s[Len(s)]) THEN RStrip(SubSeq(s, 1, Len(s) - 1)) ELSE s

\* str.strip() / get_text(strip=True) of a single text node
Strip(s) == RStrip(LStrip(s))

----------------------------------------------------------------------------
(* Numbers: a float is modelled by the exact rational it stands for, n/d in  *)
(* lowest terms with d > 0.  A parser's result is [kind, val]: "num" with a  *)
(* value, "none" for None, "raise" for an exception leaving the function.    *)

RECURSIVE GCD(_, _)
GCD(a, b) == IF b = 0 THEN a ELSE GCD(b, a % b)

Abs(x) == IF x < 0 THEN -x ELSE x

MkRat(n, d) == LET g == GCD(Abs(n), d) IN [n |-> n \div g, d |-> d \div g]

Zero == 0
RatZero == [n |-> Zero, d |-> 1]
RatOfInt(k) == [n |-> k, d |-> 1]
RatAdd(x, y) == MkRat(x.n * y.d + y.n * x.d, x.d * y.d)
RatNeg(x) == [n |-> -x.n, d |-> x.d]

None == [kind |-> "none", val |-> RatZero]
Raise == [kind |-> "raise", val |-> RatZero]
Num(v) == [kind |-> "num", val |-> v]

\* x / y on floats: ZeroDivisionError when y is 0
RatDiv(x, y) == IF y.n = 0 THEN Raise
                ELSE Num(IF y.n > 0 THEN MkRat(x.n * y.d, x.d * y.n)
                         ELSE MkRat(-(x.n * y.d), x.d * (-y.n)))

Digits == {"0", "1", "2", "3", "4", "5", "6", "7", "8", "9"}
DigitVal == [c \in Digits |->
               CASE c = "0" -> 0 [] c = "1" -> 1 [] c = "2" -> 2 [] c = "3" -> 3
                 [] c = "4" -> 4 [] c = "5" -> 5 [] c = "6" -> 6 [] c = "7" -> 7
                 [] c = "8" -> 8 [] c = "9" -> 9]

\* \d
IsDigit(c) == c \in Digits

\* characters that are not \w: everything else of the texts is a letter, a digit
\* or a vulgar-fraction glyph (str.isnumeric, so \w)
NonWordChars == {" ", ".", "/", "+", "-", ",", ":", "%"}
IsWordChar(c) == c \notin NonWordChars

RECURSIVE DigitsValue(_)
DigitsValue(ds) ==
    IF ds = <<>> THEN 0
    ELSE 10 * DigitsValue(SubSeq(ds, 1, Len(ds) - 1)) + DigitVal[ds[Len(ds)]]

RECURSIVE Pow10(_)
Pow10(k) == IF k = 0 THEN 1 ELSE 10 * Pow10(k - 1)

\* number of fraction digits the model resolves; further digits are dropped
FracResolution == 8

Repr1Third == <<"3", "3", "3", "3", "3", "3", "3", "3", "3", "3", "3", "3", "3", "3", "3", "3">>
Repr2Thirds == <<"6", "6", "6", "6", "6", "6", "6", "6", "6", "6", "6", "6", "6", "6", "6", "6">>

\* value of the fraction digits fp of a decimal literal; repr(1/3) and repr(2/3)
\* parse back to the floats 1/3 and 2/3
FracValue(fp) ==
    IF fp = Repr1Third THEN MkRat(1, 3)
    ELSE IF fp = Repr2Thirds THEN MkRat(2, 3)
    ELSE LET f == SubSeq(fp, 1, Min(Len(fp), FracResolution))
         IN  MkRat(DigitsValue(f), Pow10(Len(f)))

\* float() of the literal [-]ip[.fp]
FloatOf(neg, ip, fp) ==
    LET v == RatAdd(RatOfInt(DigitsValue(ip)), FracValue(fp))
    IN  IF neg THEN RatNeg(v) ELSE v

\* index after the run of digits (\d*) that starts at i
RECURSIVE DigitsEnd(_, _)
DigitsEnd(s, i) == IF i <= Len(s) /\ IsDigit(s[i]) THEN DigitsEnd(s, i + 1) ELSE i

\* index after the run of whitespace (\s*) that starts at i
RECURSIVE SpacesEnd(_, _)
SpacesEnd(s, i) == IF i <= Len(s) /\ IsSpace(s[i]) THEN SpacesEnd(s, i + 1) ELSE i

CharAt(s, i) == IF i >= 1 /\ i <= Len(s) THEN s[i] ELSE "<end>"

\* s[i:j] with 1-based i and exclusive j
Slice(s, i, j) == SubSeq(s, i, j - 1)

\* str.replace(old, new): non-overlapping occurrences, left to right
RECURSIVE ReplaceFrom(_, _, _, _)
ReplaceFrom(s, i, old, new) ==
    IF i > Len(s) THEN <<>>
    ELSE IF MatchAt(s, i, old) THEN new \o ReplaceFrom(s, i + Len(old), old, new)
    ELSE <<s[i]>> \o ReplaceFrom(s, i + 1, old, new)

Replace(s, old, new) == ReplaceFrom(s, 1, old, new)

----------------------------------------------------------------------------
(* appender.parse_acres *)

\* FRACTIONS, each value as f"{dec}" prints it. The glyph characters U+00BD, U+00BC,
\* U+00BE, U+2153 and U+2154 are written "{1/2}", "{1/4}", "{3/4}", "{1/3}", "{2/3}":
\* each is one character of a text.
FRACTIONS == <<[sym |-> "{1/2}", dec |-> <<"0", ".", "5">>],
               [sym |-> "{1/4}", dec |-> <<"0", ".", "2", "5">>],
               [sym |-> "{3/4}", dec |-> <<"0", ".", "7", "5">>],
               [sym |-> "{1/3}", dec |-> <<"0", ".", "3", "3", "3", "3", "3", "3", "3", "3", "3", "3", "3", "3", "3", "3", "3", "3">>],
               [sym |-> "{2/3}", dec |-> <<"0", ".", "6", "6", "6", "6", "6", "6", "6", "6", "6", "6", "6", "6", "6", "6", "6", "6">>]>>

\* \b between s[i-1] and s[i]
WordBoundary(s, i) ==
    (i - 1 >= 1 /\ i - 1 <= Len(s) /\ IsWordChar(s[i - 1]))
        # (i >= 1 /\ i <= Len(s) /\ IsWordChar(s[i]))

\* the alternatives of (about|approx(?:imately)?|over|just over|c\.) in the order
\* the regex engine tries them
FillerWords == <<<<"a", "b", "o", "u", "t">>,
                 <<"a", "p", "p", "r", "o", "x", "i", "m", "a", "t", "e", "l", "y">>,
                 <<"a", "p", "p", "r", "o", "x">>,
                 <<"o", "v", "e", "r">>,
                 <<"j", "u", "s", "t", " ", "o", "v", "e", "r">>,
                 <<"c", ".">>>>

\* length of the match of \b(...)\b at i, 0 if there is none
FillerLenAt(s, i) ==
    IF ~WordBoundary(s, i) THEN 0
    ELSE LET hits == {k \in 1..Len(FillerWords) :
                        /\ MatchAt(s, i, FillerWords[k])
                        /\ WordBoundary(s, i + Len(FillerWords[k]))}
         IN  IF hits = {} THEN 0
             ELSE Len(FillerWords[CHOOSE k \in hits : \A j \in hits : k <= j])

\* re.sub(r"\b(about|approx(?:imately)?|over|just over|c\.)\b", "", s)
RECURSIVE StripFillersFrom(_, _)
StripFillersFrom(s, i) ==
    IF i > Len(s) THEN <<>>
    ELSE LET n == FillerLenAt(s, i)
         IN  IF n > 0 THEN StripFillersFrom(s, i + n)
             ELSE <<s[i]>> \o StripFillersFrom(s, i + 1)

StripFillers(s) == StripFillersFrom(s, 1)

RECURSIVE ReplaceGlyphs_NoPlus(_, _)
ReplaceGlyphs_NoPlus(s, k) ==
    IF k > Len(FRACTIONS) THEN s
    ELSE ReplaceGlyphs_NoPlus(Replace(s, <<FRACTIONS[k].sym>>, FRACTIONS[k].dec), k + 1)

\* for sym, dec in FRACTIONS.items(): s = s.replace(sym, f" +{dec}")
RECURSIVE ReplaceGlyphs(_, _)
ReplaceGlyphs(s, k) ==
    IF k > Len(FRACTIONS) THEN s
    ELSE ReplaceGlyphs(Replace(s, <<FRACTIONS[k].sym>>, <<" ", "+">> \o FRACTIONS[k].dec), k + 1)

\* lines 18-25: the text on which the three rules search
Normalised(chars) ==
    LET s1 == StripFillers(Lower(chars))
        s2 == Strip(Replace(Replace(s1, <<"a", "c", "r", "e", "s">>, <<>>), <<"a", "c", "r", "e">>, <<>>))
    IN  ReplaceGlyphs(s2, 1)

\* match of (\d+)\s+(\d+)\s*/\s*(\d+) at i: [ok, whole, num, den] (digit strings)
MixedAt(s, i) ==
    LET a == DigitsEnd(s, i)
        b == SpacesEnd(s, a)
        c == DigitsEnd(s, b)
        d == SpacesEnd(s, c)
        e == SpacesEnd(s, d + 1)
        f == DigitsEnd(s, e)
    IN  IF a > i /\ b > a /\ c > b /\ CharAt(s, d) = "/" /\ f > e
        THEN [ok |-> TRUE, whole |-> Slice(s, i, a), num |-> Slice(s, b, c), den |-> Slice(s, e, f)]
        ELSE [ok |-> FALSE, whole |-> <<>>, num |-> <<>>, den |-> <<>>]

\* re.search: the match at the leftmost position, 0 if none
FirstMixed(s) ==
    LET hits == {i \in 1..Len(s) : MixedAt(s, i).ok}
    IN  IF hits = {} THEN 0 ELSE CHOOSE i \in hits : \A j \in hits : i <= j

Denominator_Unguarded(den) == RatOfInt(DigitsValue(den))

\* den = float(m.group(3)) if float(m.group(3)) != 0 else 1.0
Denominator(den) == IF DigitsValue(den) # 0 THEN RatOfInt(DigitsValue(den)) ELSE RatOfInt(1)

\* lines 29-33
MixedResult(m) ==
    LET whole == RatOfInt(DigitsValue(m.whole))
        num == RatOfInt(DigitsValue(m.num))
        q == RatDiv(num, Denominator(m.den))
    IN  IF q.kind = "raise" THEN Raise ELSE Num(RatAdd(whole, q.val))

\* match of (\d+(?:\.\d+)?)\s*(?:\+\s*(0?\.\d+))? at i:
\* [ok, ip, fp] for group 1 and [has2, ip2, fp2] for group 2
NumPlusAt(s, i) ==
    LET a == DigitsEnd(s, i)
        a2 == IF CharAt(s, a) = "." /\ DigitsEnd(s, a + 1) > a + 1 THEN DigitsEnd(s, a + 1) ELSE a
        b == SpacesEnd(s, a2)
        c == SpacesEnd(s, b + 1)
        z == IF CharAt(s, c) = "0" /\ CharAt(s, c + 1) = "." THEN c + 1 ELSE c
        g == DigitsEnd(s, z + 1)
        has2 == CharAt(s, b) = "+" /\ CharAt(s, z) = "." /\ g > z + 1
    IN  [ok |-> a > i,
         ip |-> Slice(s, i, a),
         fp |-> IF a2 > a THEN Slice(s, a + 1, a2) ELSE <<>>,
         has2 |-> has2,
         ip2 |-> IF has2 THEN Slice(s, c, z) ELSE <<>>,
         fp2 |-> IF has2 THEN Slice(s, z + 1, g) ELSE <<>>]

FirstNumPlus(s) ==
    LET hits == {i \in 1..Len(s) : NumPlusAt(s, i).ok}
    IN  IF hits = {} THEN 0 ELSE CHOOSE i \in hits : \A j \in hits : i <= j

\* lines 37-40
NumPlusResult(m) ==
    LET base == FloatOf(FALSE, m.ip, m.fp)
        frac == IF m.has2 THEN FloatOf(FALSE, m.ip2, m.fp2) ELSE RatZero
    IN  Num(RatAdd(base, frac))

\* match of (-?\d+(?:\.\d+)?) at i: [ok, neg, ip, fp]
SignedAt(s, i) ==
    LET neg == CharAt(s, i) = "-" /\ IsDigit(CharAt(s, i + 1))
        st == IF neg THEN i + 1 ELSE i
        a == DigitsEnd(s, st)
        a2 == IF CharAt(s, a) = "." /\ DigitsEnd(s, a + 1) > a + 1 THEN DigitsEnd(s, a + 1) ELSE a
    IN  [ok |-> a > st, neg |-> neg, ip |-> Slice(s, st, a),
         fp |-> IF a2 > a THEN Slice(s, a + 1, a2) ELSE <<>>]

FirstSigned(s) ==
    LET hits == {i \in 1..Len(s) : SignedAt(s, i).ok}
    IN  IF hits = {} THEN 0 ELSE CHOOSE i \in hits : \A j \in hits : i <= j

\* lines 43-44
SignedResult(s) ==
    LET i == FirstSigned(s)
    IN  IF i = 0 THEN None
        ELSE LET m == SignedAt(s, i) IN Num(FloatOf(m.neg, m.ip, m.fp))

\* the rule chain with the signed-number fallback tried first
ApplyRules_SignedFirst(s) ==
    IF FirstSigned(s) # 0 THEN SignedResult(s)
    ELSE IF FirstMixed(s) # 0 THEN MixedResult(MixedAt(s, FirstMixed(s)))
    ELSE IF FirstNumPlus(s) # 0 THEN NumPlusResult(NumPlusAt(s, FirstNumPlus(s)))
    ELSE None

\* the rule chain with the number-plus-fraction rule tried before the mixed fraction
ApplyRules_NumberFirst(s) ==
    IF FirstNumPlus(s) # 0 THEN NumPlusResult(NumPlusAt(s, FirstNumPlus(s)))
    ELSE IF FirstMixed(s) # 0 THEN MixedResult(MixedAt(s, FirstMixed(s)))
    ELSE SignedResult(s)

\* lines 27-44: the three rules in order
ApplyRules(s) ==
    IF FirstMixed(s) # 0 THEN MixedResult(MixedAt(s, FirstMixed(s)))
    ELSE IF FirstNumPlus(s) # 0 THEN NumPlusResult(NumPlusAt(s, FirstNumPlus(s)))
    ELSE SignedResult(s)

\* A cell value: missing (NaN / None) or a text
Missing == [missing |-> TRUE, chars |-> <<>>]
Text(chars) == [missing |-> FALSE, chars |-> chars]

\* appender.parse_acres
parse_acres(text) ==
    IF text.missing THEN None
    ELSE ApplyRules(Normalised(text.chars))

----------------------------------------------------------------------------
(* map_woodlands.parse_price_to_int *)

\* re.sub(r"[^\d]", "", s)
OnlyDigits_FirstRun(s) ==
    LET starts == {i \in 1..Len(s) : IsDigit(s[i])}
    IN  IF starts = {} THEN <<>>
        ELSE LET a == CHOOSE i \in starts : \A j \in starts : i <= j
             IN  SubSeq(s, a, DigitsEnd(s, a) - 1)

\* re.sub(r"[^\d]", "", str(s))
OnlyDigits(s) == SelectSeq(s, IsDigit)

parse_price_to_int(text) ==
    IF text.missing THEN None
    ELSE LET digits == OnlyDigits(text.chars)
         IN  IF digits # <<>> THEN Num(RatOfInt(DigitsValue(digits))) ELSE None

----------------------------------------------------------------------------
(* locations.extract_gps *)

\* A page is the sequence of its text nodes, in document order; li tells whether
\* the node is the text of an <li>.

\* get_text(" ", strip=True): the stripped, non-empty text nodes joined by " "
RECURSIVE JoinTexts(_)
JoinTexts(nodes) ==
    IF nodes = <<>> THEN <<>>
    ELSE LET t == Strip(Head(nodes).text)
             rest == JoinTexts(Tail(nodes))
         IN  IF t = <<>> THEN rest
             ELSE IF rest = <<>> THEN t
             ELSE t \o <<" ">> \o rest

GpsPrefix == <<"g", "p", "s", " ", "c", "o", "o", "r", "d", "i", "n", "a", "t", "e", "s">>

\* lines 100-105: the text of the first <li> that starts with "gps coordinates"
GpsFragment(nodes) ==
    LET hits == {k \in 1..Len(nodes) :
                    nodes[k].li /\ StartsWith(Lower(Strip(nodes[k].text)), GpsPrefix)}
    IN  IF hits = {} THEN <<>>
        ELSE Strip(nodes[CHOOSE k \in hits : \A j \in hits : k <= j].text)

\* match of -?\d+\.\d+ at i: [ok, neg, ip, fp, end]
DecimalAt(s, i) ==
    LET neg == CharAt(s, i) = "-"
        st == IF neg THEN i + 1 ELSE i
        a == DigitsEnd(s, st)
        b == DigitsEnd(s, a + 1)
    IN  [ok |-> a > st /\ CharAt(s, a) = "." /\ b > a + 1,
         neg |-> neg, ip |-> Slice(s, st, a), fp |-> Slice(s, a + 1, Max(b, a + 1)), end |-> b]

\* match of (-?\d+\.\d+)\s*,\s*(-?\d+\.\d+) at i: [ok, lat, lon]
PairAt(s, i) ==
    LET x == DecimalAt(s, i)
        c == SpacesEnd(s, x.end)
        y == DecimalAt(s, SpacesEnd(s, c + 1))
    IN  [ok |-> x.ok /\ CharAt(s, c) = "," /\ y.ok, lat |-> x, lon |-> y]

FirstPair(s) ==
    LET hits == {i \in 1..Len(s) : PairAt(s, i).ok}
    IN  IF hits = {} THEN 0 ELSE CHOOSE i \in hits : \A j \in hits : i <= j

SearchSpace_WholePage(nodes) == JoinTexts(nodes)

\* search_space = gps_text or s.get_text(" ", strip=True)
SearchSpace(nodes) ==
    IF GpsFragment(nodes) # <<>> THEN GpsFragment(nodes) ELSE JoinTexts(nodes)

\* lines 107-110
GpsResult(s) ==
    LET i == FirstPair(s)
    IN  IF i = 0 THEN [lat |-> None, lon |-> None]
        ELSE LET m == PairAt(s, i)
             IN  [lat |-> Num(FloatOf(m.lat.neg, m.lat.ip, m.lat.fp)),
                  lon |-> Num(FloatOf(m.lon.neg, m.lon.ip, m.lon.fp))]

\* locations.extract_gps: [gps_text, lat, lon]
extract_gps(nodes) ==
    LET r == GpsResult(SearchSpace(nodes))
    IN  [gps_text |-> GpsFragment(nodes), lat |-> r.lat, lon |-> r.lon]

----------------------------------------------------------------------------
(* The crawlers: locations.main and app.main *)

H1Error404 == <<" ", "P", "a", "g", "e", " ", "e", "r", "r", "o", "r", " ", "4", "0", "4", " ">>
H1Search == <<"S", "e", "a", "r", "c", "h">>

\* s.select_one("h1"): no h1 element, or its text
H1s == {[present |-> FALSE, text |-> <<>>]}
         \cup [present : {TRUE}, text : {H1Error404, H1Search}]

Urls == {"u1", "u2", "u3"}
PdfNames == {"a.pdf", "b.pdf"}
StatusCodes == {200, 404}

Absent == "absent"
\* OUT_CSV before it is written: no row of a crawl has this URL
NotWritten == <<[URL |-> "not written"]>>

RECURSIVE SeqsUpTo(_, _)
SeqsUpTo(S, n) ==
    IF n = 0 THEN {<<>>}
    ELSE LET shorter == SeqsUpTo(S, n - 1)
         IN  shorter \cup {Append(q, x) : q \in {r \in shorter : Len(r) = n - 1}, x \in S}

LinkLists == SeqsUpTo(Urls, MaxLinks)

\* What requests.get gives for a search page; raised: the request itself failed.
SearchResponses ==
    [raised : {TRUE}, status : {0}, h1 : {[present |-> FALSE, text |-> <<>>]}]
      \cup [raised : {FALSE}, status : StatusCodes, h1 : H1s]

NoResp == [raised |-> FALSE, status |-> 0, h1 |-> [present |-> FALSE, text |-> <<>>]]

Err404 == <<"e", "r", "r", "o", "r", " ", "4", "0", "4">>

is_404_StatusOnly(h1, status_code) == status_code = 404

is_404(h1, status_code) ==
    IF status_code = 404 THEN TRUE
    ELSE h1.present /\ Contains(Lower(Strip(h1.text)), Err404)

\* Response.raise_for_status(): raises for 4xx and 5xx
RaisesForStatus(status) == status >= 400 /\ status < 600

\* What requests.get gives for a detail page, as locations.scrape_detail reads it
ScrapeResponses ==
    [raised : {TRUE}, status : {0}, has_h1 : {FALSE}]
      \cup [raised : {FALSE}, status : StatusCodes, has_h1 : BOOLEAN]

\* What requests.get gives for a detail page, as app.main reads it
\* (pdf = Absent: find_pdf_link_on_detail_page finds no link)
PdfPageResponses ==
    [raised : {TRUE}, status : {0}, pdf : {Absent}]
      \cup [raised : {FALSE}, status : StatusCodes, pdf : PdfNames \cup {Absent}]

\* Outcome of the streamed PDF GET of download_file: "ok", "failed" (the request or
\* raise_for_status raised, nothing written), "partial" (the stream broke after open()).
DownloadOutcomes == {"ok", "failed", "partial"}

\* scrape_detail: [ok, row]; ok = FALSE stands for a raised exception
scrape_detail(detail_url, d) ==
    IF d.raised THEN [ok |-> FALSE, row |-> [URL |-> detail_url]]
    ELSE IF RaisesForStatus(d.status) THEN [ok |-> FALSE, row |-> [URL |-> detail_url]]
    ELSE IF ~d.has_h1 THEN [ok |-> FALSE, row |-> [URL |-> detail_url]]
    ELSE [ok |-> TRUE, row |-> [URL |-> detail_url]]

\* the try/except of locations.main around scrape_detail
AppendScraped_Always(rs, r) == Append(rs, r.row)

AppendScraped(rs, r) == IF r.ok THEN Append(rs, r.row) ELSE rs

\* "if link in seen: continue"
AlreadySeen_Never(link, s) == FALSE

AlreadySeen(link, s) == link \in s

MarkSeen_OnSuccess(s, link, ok) == IF ok THEN s \cup {link} ELSE s

\* seen.add(link), before the try; ok: how the processing of the link ended
MarkSeen(s, link, ok) == s \cup {link}

StopsAt_AllSeen(links, s) == \A k \in 1..Len(links) : links[k] \in s

\* "if not detail_links: break"
StopsAt(links, s) == links = <<>>

\* time.sleep(REQUEST_DELAY_SEC) at the end of a page; b: the requests issued since
\* the last delay, none after it
PageSleep(b) == <<>>

ItemSleep_Missing(b) == b

\* time.sleep(REQUEST_DELAY_SEC) in the finally of an item
ItemSleep(b) == <<>>

\* download_file: dest.exists() decides; [ok, dir, reqs]
download_file(name, dir, outcome) ==
    IF dir[name] # Absent THEN [ok |-> TRUE, dir |-> dir, reqs |-> <<>>]
    ELSE CASE outcome = "ok" ->
                [ok |-> TRUE, dir |-> [dir EXCEPT ![name] = "new"], reqs |-> <<"pdf">>]
           [] outcome = "partial" ->
                [ok |-> FALSE, dir |-> [dir EXCEPT ![name] = "partial"], reqs |-> <<"pdf">>]
           [] OTHER ->
                [ok |-> FALSE, dir |-> dir, reqs |-> <<"pdf">>]

\* body of the try of app.main for one detail page: [ok, dir, reqs]
app_item(d, dir, outcome) ==
    IF d.raised \/ RaisesForStatus(d.status) \/ d.pdf = Absent
    THEN [ok |-> FALSE, dir |-> dir, reqs |-> <<"detail">>]
    ELSE LET r == download_file(d.pdf, dir, outcome)
         IN  [ok |-> r.ok, dir |-> r.dir, reqs |-> <<"detail">> \o r.reqs]

\* the values of the variables a script does not use
IdleCrawl ==
    /\ page = 1
    /\ seen = {}
    /\ resp = NoResp
    /\ detail_links = <<>>
    /\ idx = 1
    /\ rows = <<>>
    /\ total_downloads = 0
    /\ save_dir = [n \in PdfNames |-> Absent]
    /\ out_csv = NotWritten
    /\ burst = <<>>
    /\ max_burst = 0
    /\ n_req = 0
    /\ tried = [u \in Urls |-> "no"]
    /\ n_tries = [u \in Urls |-> 0]
    /\ listed = {}

\* no frame is given to annotate_min_distance_to_cities
IdleFrames ==
    /\ sites_df = <<>>
    /\ cities_df = [is_none |-> TRUE, rows |-> <<>>]

IdleParse ==
    /\ cell = Missing
    /\ dom = <<>>
    /\ result = [fn |-> "none"]
    /\ IdleFrames

\* A CSV file: whether it exists, whether pandas can read it, whether it has the columns
\* Size and SizeAcres, and the cells of the two columns.
NoFile == [exists |-> FALSE, readable |-> FALSE, has_size |-> FALSE, has_acres |-> FALSE,
           Size |-> <<>>, SizeAcres |-> <<>>]

IdleAppender ==
    /\ csv_file = NoFile
    /\ csv_before = NoFile
    /\ backup_file = NoFile
    /\ df = NoFile
    /\ exit_msg = ""
    /\ csv_writes = 0

IdleDash ==
    /\ f_sites = <<>>
    /\ pdfs_dir = [n \in PdfNames |-> Absent]
    /\ pdf_gets = <<>>
    /\ subset = <<>>
    /\ saved_paths = <<>>
    /\ errors = 0
    /\ zip_names = <<>>

InitCrawl ==
    /\ IdleParse /\ IdleAppender /\ IdleDash
    /\ prog \in {"locations", "app"}
    /\ pc = "search"
    /\ page = 1
    /\ seen = {}
    /\ resp = NoResp
    /\ detail_links = <<>>
    /\ idx = 1
    /\ rows = <<>>
    /\ total_downloads = 0
    /\ save_dir \in IF prog = "app" THEN [PdfNames -> {Absent, "old"}] ELSE {[n \in PdfNames |-> Absent]}
    /\ out_csv = NotWritten
    /\ burst = <<>>
    /\ max_burst = 0
    /\ n_req = 0
    /\ tried = [u \in Urls |-> "no"]
    /\ n_tries = [u \in Urls |-> 0]
    /\ listed = {}

\* One pass of "while True" up to the for loop: GET the search page and decide.
FetchSearch ==
    /\ prog \in {"locations", "app"}
    /\ pc = "search"
    /\ page <= MaxPage
    /\ \E r \in SearchResponses :
        /\ resp' = r
        /\ burst' = Append(burst, "search")
        /\ max_burst' = Max(max_burst, Len(burst) + 1)
        /\ n_req' = n_req + 1
        /\ IF r.raised
           THEN /\ pc' = "crashed"
                /\ UNCHANGED <<detail_links, idx, listed>>
           ELSE IF is_404(r.h1, r.status)
           THEN /\ pc' = "write"
                /\ UNCHANGED <<detail_links, idx, listed>>
           ELSE \E links \in LinkLists :
                /\ detail_links' = links
                /\ idx' = 1
                /\ listed' = listed \cup {links[k] : k \in 1..Len(links)}
                /\ pc' = IF StopsAt(links, seen) THEN "write" ELSE "items"
    /\ UNCHANGED <<prog, page, seen, rows, total_downloads, save_dir, out_csv, tried, n_tries>>
    /\ UNCHANGED <<parseVars, appenderVars, dashVars>>

\* One iteration of "for i, link in enumerate(detail_links)" of locations.main
ScrapeItem ==
    /\ prog = "locations"
    /\ pc = "items"
    /\ idx <= Len(detail_links)
    /\ LET link == detail_links[idx] IN
        IF AlreadySeen(link, seen)
        THEN /\ idx' = idx + 1
             /\ UNCHANGED <<seen, rows, burst, max_burst, n_req, tried, n_tries>>
        ELSE \E d \in ScrapeResponses :
             LET r == scrape_detail(link, d) IN
               /\ seen' = MarkSeen(seen, link, r.ok)
               /\ rows' = AppendScraped(rows, r)
               /\ tried' = [tried EXCEPT ![link] = IF r.ok THEN "ok" ELSE "failed"]
               /\ n_tries' = [n_tries EXCEPT ![link] = @ + 1]
               /\ n_req' = n_req + 1
               /\ max_burst' = Max(max_burst, Len(burst) + 1)
               /\ burst' = ItemSleep(Append(burst, "detail"))
               /\ idx' = idx + 1
    /\ UNCHANGED <<prog, pc, page, resp, detail_links, total_downloads, save_dir, out_csv, listed>>
    /\ UNCHANGED <<parseVars, appenderVars, dashVars>>

\* One iteration of "for i, detail_url in enumerate(detail_links)" of app.main
DownloadItem ==
    /\ prog = "app"
    /\ pc = "items"
    /\ idx <= Len(detail_links)
    /\ LET link == detail_links[idx] IN
        IF AlreadySeen(link, seen)
        THEN /\ idx' = idx + 1
             /\ UNCHANGED <<seen, total_downloads, save_dir, burst, max_burst, n_req, tried, n_tries>>
        ELSE \E d \in PdfPageResponses :
             \E o \in IF d.pdf = Absent THEN {"failed"} ELSE DownloadOutcomes :
             LET r == app_item(d, save_dir, o) IN
               /\ seen' = MarkSeen(seen, link, r.ok)
               /\ save_dir' = r.dir
               /\ total_downloads' = IF r.ok THEN total_downloads + 1 ELSE total_downloads
               /\ tried' = [tried EXCEPT ![link] = IF r.ok THEN "ok" ELSE "failed"]
               /\ n_tries' = [n_tries EXCEPT ![link] = @ + 1]
               /\ n_req' = n_req + Len(r.reqs)
               /\ max_burst' = Max(max_burst, Len(burst) + Len(r.reqs))
               /\ burst' = ItemSleep(burst \o r.reqs)
               /\ idx' = idx + 1
    /\ UNCHANGED <<prog, pc, page, resp, detail_links, rows, out_csv, listed>>
    /\ UNCHANGED <<parseVars, appenderVars, dashVars>>

\* End of the for loop: page += 1, time.sleep, back to the top of "while True"
NextPage ==
    /\ prog \in {"locations", "app"}
    /\ pc = "items"
    /\ idx > Len(detail_links)
    /\ page' = page + 1
    /\ burst' = PageSleep(burst)
    /\ pc' = "search"
    /\ UNCHANGED <<prog, seen, resp, detail_links, idx, rows, total_downloads, save_dir,
                   out_csv, max_burst, n_req, tried, n_tries, listed>>
    /\ UNCHANGED <<parseVars, appenderVars, dashVars>>

\* After the loop of locations.main: write the CSV
WriteCSV ==
    /\ prog = "locations"
    /\ pc = "write"
    /\ out_csv' = rows
    /\ pc' = "done"
    /\ UNCHANGED <<prog, page, seen, resp, detail_links, idx, rows, total_downloads, save_dir,
                   burst, max_burst, n_req, tried, n_tries, listed>>
    /\ UNCHANGED <<parseVars, appenderVars, dashVars>>

\* After the loop of app.main: print the count
AppDone ==
    /\ prog = "app"
    /\ pc = "write"
    /\ pc' = "done"
    /\ UNCHANGED <<prog, crawlVars>>
    /\ UNCHANGED <<parseVars, appenderVars, dashVars>>

NextCrawl == FetchSearch \/ ScrapeItem \/ DownloadItem \/ NextPage \/ WriteCSV \/ AppDone

SpecCrawl == InitCrawl /\ [][NextCrawl]_vars

----------------------------------------------------------------------------
(* Properties of the crawlers *)

\* number of records of rs that carry the URL u
CountUrl(rs, u) == Cardinality({k \in 1..Len(rs) : rs[k].URL = u})

\* C1 as stated: when locations.main has written its output, every URL that was
\* listed on a visited search page has exactly one record in the written rows.
C1_ExactlyOneRecordPerListedUrl ==
    (prog = "locations" /\ pc = "done") =>
        \A u \in listed : CountUrl(out_csv, u) = 1

\* C1 amended: a listed URL never has more than one record, however often and
\* wherever it is listed; it has exactly one if its (single) scrape succeeded and
\* none if it failed, and the written rows are the collected ones.
C1_AtMostOneRecordPerUrl ==
    prog = "locations" =>
        /\ \A u \in Urls : CountUrl(rows, u) = (IF tried[u] = "ok" THEN 1 ELSE 0)
        /\ pc = "done" =>
              /\ out_csv = rows
              /\ \A u \in listed : CountUrl(out_csv, u) = (IF tried[u] = "ok" THEN 1 ELSE 0)

\* u1 is listed twice on page 1, and the output holds one record of it
C1_Witness ==
    /\ prog = "locations"
    /\ pc = "done"
    /\ page = 2
    /\ detail_links = <<"u1", "u1">>
    /\ CountUrl(out_csv, "u1") = 1

\* the page of the last search response is one the claim calls not found
NotFoundPage(r) ==
    /\ ~r.raised
    /\ \/ r.status = 404
       \/ /\ r.h1.present
          /\ \E i \in 1..Len(r.h1.text) :
                /\ i + Len(Err404) - 1 <= Len(r.h1.text)
                /\ \A k \in 1..Len(Err404) : Lower(r.h1.text)[i + k - 1] = Err404[k]

\* C2: once a search page is flagged not found (status 404 or 'error 404' in its
\* first h1), both crawlers have left the loop, and from then on no request is
\* issued, no card link is processed, no record or download is added and the page
\* number does not advance.
C2_StopsAtNotFoundPage ==
    /\ [](NotFoundPage(resp) => pc \in {"write", "done"})
    /\ [][NotFoundPage(resp) =>
            UNCHANGED <<page, n_req, rows, total_downloads, save_dir, seen, tried, n_tries>>]_vars

\* page 2 is flagged by its heading alone, after page 1 gave a record
C2_Witness ==
    /\ pc = "done"
    /\ page = 2
    /\ resp.status = 200
    /\ NotFoundPage(resp)
    /\ rows # <<>>

\* a step in which the processing of one detail page fails
ItemFailedStep == \E u \in Urls : tried[u] = "no" /\ tried'[u] = "failed"

\* C3: a failure while one detail page is processed adds no record and no download
\* count, leaves the collected records alone, and the loop moves to the next card
\* link of the same page; after the last link the next page follows.
C3_ItemFailureIsSkipped ==
    /\ [][ItemFailedStep =>
            /\ rows' = rows
            /\ total_downloads' = total_downloads
            /\ out_csv' = out_csv
            /\ pc' = "items"
            /\ idx' = idx + 1
            /\ detail_links' = detail_links
            /\ page' = page]_vars
    /\ []((pc = "items" /\ idx > Len(detail_links)) => ENABLED NextPage)

\* u1 failed on page 1, u2 of the same page gave a record after it, and page 2 is processed
C3_Witness ==
    /\ prog = "locations"
    /\ pc = "items"
    /\ page = 2
    /\ tried["u1"] = "failed"
    /\ rows = <<[URL |-> "u2"]>>
    /\ detail_links = <<"u3">>
    /\ idx = 1

\* C4 as stated: no failed request ends locations.main without its CSV; after a
\* search-page request that raised, the crawl is still running or has written.
C4_NoNetworkFailureIsFatal ==
    (prog = "locations" /\ resp.raised) => pc \in {"search", "items", "write", "done"}

\* C6 as stated: no two requests are issued without a delay between them.
C6_NoBackToBackRequests == max_burst <= 1

BurstLimit == IF prog = "locations" THEN 2 ELSE 3

\* C6 amended: a delay follows every processed detail page and every page, so each
\* search-page GET after the first directly follows a delay; the search-page GET and
\* the first detail-page GET after it, and in app.main a detail-page GET and its PDF
\* GET, have no delay between them: at most 2 (locations.main) or 3 (app.main)
\* requests are issued back to back.
C6_DelayAfterEachItemAndPage ==
    /\ max_burst <= BurstLimit
    /\ Len(burst) <= 1
    /\ pc = "search" => burst = <<>>

\* app.main issued search, detail and PDF GET in a row, then went on to page 2
C6_Witness ==
    /\ prog = "app"
    /\ max_burst = 3
    /\ page = 2
    /\ pc = "search"

----------------------------------------------------------------------------
(* Calls of the parsers on bounded inputs *)

MaxChunks == 3
MaxPriceChunks == 3
MaxNodes == 2

\* Size texts are built from these pieces
AcreChunks == {<<"1">>,
               <<"2", " ">>,
               <<" ">>,
               <<"3", "/", "4">>,
               <<"/", "0">>,
               <<"{1/2}">>,
               <<".", "5">>,
               <<"-">>,
               <<"a", "b", "o", "u", "t", " ">>,
               <<" ", "a", "c", "r", "e", "s">>}

AcreTexts == {Missing} \cup {Text(Concat(q)) : q \in SeqsUpTo(AcreChunks, MaxChunks)}

\* Price texts are built from these pieces ("L" stands for the pound sign)
PriceChunks == {<<"L">>, <<"5">>, <<"9", "0">>, <<",">>, <<"0">>, <<" ">>, <<"P", "O", "A">>}

\* a price as the listings print it
PriceExamples == {Text(<<"L", "5", "9", ",", "0", "0", "0">>)}

PriceTexts == {Missing} \cup PriceExamples
                \cup {Text(Concat(q)) : q \in SeqsUpTo(PriceChunks, MaxPriceChunks)}

\* Text nodes of a detail page
GpsTexts == {<<"G", "P", "S", " ", "c", "o", "o", "r", "d", "i", "n", "a", "t", "e", "s", ":", " ", "5", "1", ".", "5", ",", " ", "-", "0", ".", "2", "5">>,
             <<"g", "p", "s", " ", "c", "o", "o", "r", "d", "i", "n", "a", "t", "e", "s", ":", " ", "n", "/", "a">>,
             <<"G", "r", "i", "d", " ", "1", ".", "5", " ", ",", " ", "2", ".", "2", "5">>,
             <<"a", "b", "o", "u", "t", " ", "2", " ", "a", "c", "r", "e", "s", " ", "7", ".", "5">>,
             <<" ", "G", "P", "S", " ", "C", "o", "o", "r", "d", "i", "n", "a", "t", "e", "s", " ", "3", ".", "5", ",", "4", ".", "5", " ", "7", ".", "5", ",", " ", "8", ".", "5">>,
             <<"5", "1", ".", "5", ",">>,
             <<" ", "-", "0", ".", "2", "5", " ">>}

GpsNodes == [li : BOOLEAN, text : GpsTexts]

GpsPages == SeqsUpTo(GpsNodes, MaxNodes)

InitParse ==
    /\ IdleCrawl /\ IdleAppender /\ IdleDash
    /\ prog = "parse"
    /\ result = [fn |-> "none"]
    /\ IdleFrames
    /\ \/ pc = "acres" /\ cell \in AcreTexts /\ dom = <<>>
       \/ pc = "price" /\ cell \in PriceTexts /\ dom = <<>>
       \/ pc = "gps" /\ cell = Missing /\ dom \in GpsPages

CallParseAcres ==
    /\ prog = "parse"
    /\ pc = "acres"
    /\ result' = [fn |-> "parse_acres", val |-> parse_acres(cell)]
    /\ pc' = "returned"
    /\ UNCHANGED <<prog, cell, dom, sites_df, cities_df, crawlVars, appenderVars, dashVars>>

CallParsePrice ==
    /\ prog = "parse"
    /\ pc = "price"
    /\ result' = [fn |-> "parse_price_to_int", val |-> parse_price_to_int(cell)]
    /\ pc' = "returned"
    /\ UNCHANGED <<prog, cell, dom, sites_df, cities_df, crawlVars, appenderVars, dashVars>>

CallExtractGps ==
    /\ prog = "parse"
    /\ pc = "gps"
    /\ result' = [fn |-> "extract_gps", val |-> extract_gps(dom)]
    /\ pc' = "returned"
    /\ UNCHANGED <<prog, cell, dom, sites_df, cities_df, crawlVars, appenderVars, dashVars>>

NextParse == CallParseAcres \/ CallParsePrice \/ CallExtractGps

SpecParse == InitParse /\ [][NextParse]_vars

----------------------------------------------------------------------------
(* Properties of the parsers *)

HasDigit(s) == \E k \in 1..Len(s) : s[k] \in Digits

Glyphs == {FRACTIONS[k].sym : k \in 1..Len(FRACTIONS)}

HasGlyph(s) == \E k \in 1..Len(s) : s[k] \in Glyphs

\* s[i:j] is a literal -?\d+\.\d+
IsDecimalSlice(s, i, j) ==
    LET st == IF CharAt(s, i) = "-" THEN i + 1 ELSE i
    IN  \E dot \in (st + 1)..(j - 2) :
            /\ s[dot] = "."
            /\ \A k \in st..(j - 1) : k # dot => s[k] \in Digits

\* index of the first character of the run of whitespace that ends before j
RECURSIVE SpacesStart(_, _)
SpacesStart(s, j) == IF j > 1 /\ s[j - 1] = " " THEN SpacesStart(s, j - 1) ELSE j

\* the text holds '<decimal> , <decimal>' around some comma
PairPresent(s) ==
    \E c \in 1..Len(s) :
        /\ s[c] = ","
        /\ \E i \in 1..c, l \in c..(Len(s) + 1) :
              /\ IsDecimalSlice(s, i, SpacesStart(s, c))
              /\ IsDecimalSlice(s, SpacesEnd(s, c + 1), l)

\* C9: no parser raises: parse_acres and parse_price_to_int return a number or
\* None, and None for a missing value and for a text with no digit (and, for
\* parse_acres, no fraction glyph); extract_gps returns latitude and longitude both
\* numbers or both None, and both None when no text of the page holds a
\* '<lat>, <lon>' pair.
C9_ParsersDegradeToAbsent ==
    (prog = "parse" /\ pc = "returned") =>
        /\ result.fn \in {"parse_acres", "parse_price_to_int"} =>
              /\ result.val.kind \in {"num", "none"}
              /\ cell.missing => result.val.kind = "none"
              /\ (~HasDigit(cell.chars) /\ ~HasGlyph(cell.chars)) => result.val.kind = "none"
        /\ result.fn = "extract_gps" =>
              /\ result.val.lat.kind \in {"num", "none"}
              /\ result.val.lon.kind = result.val.lat.kind
              /\ ~PairPresent(JoinTexts(dom)) => result.val.lat.kind = "none"

\* extract_gps returned on a page that holds numbers but no pair
C9_Witness ==
    /\ pc = "returned"
    /\ result.fn = "extract_gps"
    /\ Len(dom) = 2
    /\ HasDigit(JoinTexts(dom))
    /\ ~PairPresent(JoinTexts(dom))
    /\ result.val.lat.kind = "none"
    /\ result.val.lon.kind = "none"

\* index of the first character of the run of digits that ends before j
RECURSIVE DigitsStart(_, _)
DigitsStart(s, j) == IF j > 1 /\ s[j - 1] \in Digits THEN DigitsStart(s, j - 1) ELSE j

\* the mixed fraction '<whole> <numerator>/<denominator>' around the slash at p, if
\* there is one: [ok, value]
FractionAround(s, p) ==
    LET n2 == SpacesStart(s, p)
        n1 == DigitsStart(s, n2)
        w2 == SpacesStart(s, n1)
        w1 == DigitsStart(s, w2)
        d1 == SpacesEnd(s, p + 1)
        d2 == DigitsEnd(s, d1)
        den == DigitsValue(Slice(s, d1, d2))
    IN  IF s[p] = "/" /\ n1 < n2 /\ w2 < n1 /\ w1 < w2 /\ d1 < d2
        THEN [ok |-> TRUE,
              value |-> RatAdd(RatOfInt(DigitsValue(Slice(s, w1, w2))),
                               MkRat(DigitsValue(Slice(s, n1, n2)), IF den = 0 THEN 1 ELSE den))]
        ELSE [ok |-> FALSE, value |-> RatZero]

\* C10: when the text, after the filler words are stripped and the glyphs are
\* replaced, holds a mixed fraction '<whole> <numerator>/<denominator>', parse_acres
\* returns whole + numerator/denominator of the first one (a zero denominator
\* counting as 1), whatever other numbers the text holds.
C10_MixedFractionFirst ==
    (prog = "parse" /\ pc = "returned" /\ result.fn = "parse_acres" /\ ~cell.missing) =>
        LET s == Normalised(cell.chars)
            slashes == {p \in 1..Len(s) : FractionAround(s, p).ok}
        IN  slashes # {} =>
              result.val = Num(FractionAround(s, CHOOSE p \in slashes : \A q \in slashes : p <= q).value)

\* "2 3/4" followed by the glyph for one half: the result is 11/4, not 2 + 0.5
C10_Witness ==
    /\ pc = "returned"
    /\ result.fn = "parse_acres"
    /\ cell = Text(<<"2", " ", "3", "/", "4", "{1/2}">>)
    /\ result.val = Num(MkRat(11, 4))

----------------------------------------------------------------------------
(* appender.main *)

MaxRows == 2

\* cells of the Size column
SizeCells == {Missing,
              Text(<<"2", " ", "3", "/", "4", " ", "a", "c", "r", "e", "s">>),
              Text(<<"a", "b", "o", "u", "t", " ", "5", " ", "a", "c", "r", "e", "s">>),
              Text(<<"n", "/", "a">>),
              Text(<<"-", "3", " ", "a", "c", "r", "e", "s">>)}

\* a file pandas cannot parse (empty, binary, ...)
UnreadableFile == [exists |-> TRUE, readable |-> FALSE, has_size |-> FALSE, has_acres |-> FALSE,
                   Size |-> <<>>, SizeAcres |-> <<>>]

\* a CSV with other columns only
FileWithoutSize == [exists |-> TRUE, readable |-> TRUE, has_size |-> FALSE, has_acres |-> FALSE,
                    Size |-> <<>>, SizeAcres |-> <<>>]

\* the files the path can name: the crawler's CSV (no SizeAcres column), or a CSV that
\* already has a SizeAcres column of empty cells
CsvFiles ==
    {UnreadableFile, FileWithoutSize}
      \cup {[exists |-> TRUE, readable |-> TRUE, has_size |-> TRUE, has_acres |-> a,
             Size |-> sz,
             SizeAcres |-> IF a THEN [i \in 1..Len(sz) |-> None] ELSE <<>>]
            : sz \in SeqsUpTo(SizeCells, MaxRows), a \in BOOLEAN}

FileNotFound == "File not found"
SizeNotFound == "Column 'Size' not found in CSV."
ReadCsvRaised == "read_csv raised"
ToCsvRaised == "to_csv raised"
NormalizeRaised == "normalize raised"

\* pd.read_csv(path)
read_csv(f) == f

SizeColumnMissing_Never(d) == FALSE

\* "Size" not in df.columns
SizeColumnMissing(d) == ~d.has_size

\* df.to_csv(...) that stopped after k rows (k = Len: the whole frame)
to_csv(d, k) ==
    [exists |-> TRUE, readable |-> TRUE, has_size |-> d.has_size, has_acres |-> d.has_acres,
     Size |-> SubSeq(d.Size, 1, k),
     SizeAcres |-> IF d.has_acres THEN SubSeq(d.SizeAcres, 1, k) ELSE <<>>]

\* df["SizeAcres"] = df["Size"].apply(parse_acres)
Normalise(d) ==
    [d EXCEPT !.has_acres = TRUE,
              !.SizeAcres = [i \in 1..Len(d.Size) |-> parse_acres(d.Size[i])]]

\* an exception in lines 70-72: parse_acres raised, or math.sqrt got a negative number
NormaliseRaises(d) ==
    \E i \in 1..Len(d.Size) :
        LET r == parse_acres(d.Size[i])
        IN  r.kind = "raise" \/ (r.kind = "num" /\ r.val.n < 0)

ProgramOrder_RewriteFirst(step) ==
    CASE step = "start" -> "normalize"
      [] step = "normalize" -> "backup"
      [] OTHER -> "done"

\* the statement that follows each statement of main
ProgramOrder(step) ==
    CASE step = "start" -> "backup"
      [] step = "backup" -> "normalize"
      [] OTHER -> "done"

InitAppender ==
    /\ IdleCrawl /\ IdleParse /\ IdleDash
    /\ prog = "appender"
    /\ pc = "start"
    /\ csv_file \in {NoFile} \cup CsvFiles
    /\ csv_before = csv_file
    /\ backup_file = NoFile
    /\ df = NoFile
    /\ exit_msg = ""
    /\ csv_writes = 0

\* lines 55-62
AppenderStart ==
    /\ prog = "appender"
    /\ pc = "start"
    /\ IF ~csv_file.exists
       THEN pc' = "aborted" /\ exit_msg' = FileNotFound /\ df' = df
       ELSE IF ~csv_file.readable
       THEN pc' = "crashed" /\ exit_msg' = ReadCsvRaised /\ df' = df
       ELSE /\ df' = read_csv(csv_file)
            /\ IF SizeColumnMissing(df')
               THEN pc' = "aborted" /\ exit_msg' = SizeNotFound
               ELSE pc' = ProgramOrder("start") /\ exit_msg' = exit_msg
    /\ UNCHANGED <<prog, csv_file, csv_before, backup_file, csv_writes,
                   crawlVars, parseVars, dashVars>>

\* lines 65-67; k: rows written before to_csv returned or raised, -1: open() raised
AppenderBackup ==
    /\ prog = "appender"
    /\ pc = "backup"
    /\ \E k \in -1..Len(df.Size) :
        /\ backup_file' = IF k = -1 THEN backup_file ELSE to_csv(df, k)
        /\ IF k = Len(df.Size)
           THEN pc' = ProgramOrder("backup") /\ exit_msg' = exit_msg
           ELSE pc' = "crashed" /\ exit_msg' = ToCsvRaised
    /\ UNCHANGED <<prog, csv_file, csv_before, df, csv_writes,
                   crawlVars, parseVars, dashVars>>

\* lines 70-75
AppenderRewrite ==
    /\ prog = "appender"
    /\ pc = "normalize"
    /\ IF NormaliseRaises(df)
       THEN /\ pc' = "crashed"
            /\ exit_msg' = NormalizeRaised
            /\ UNCHANGED <<df, csv_file, csv_writes>>
       ELSE /\ df' = Normalise(df)
            /\ \E k \in -1..Len(df.Size) :
                /\ csv_file' = IF k = -1 THEN csv_file ELSE to_csv(df', k)
                /\ csv_writes' = IF k = -1 THEN csv_writes ELSE csv_writes + 1
                /\ IF k = Len(df.Size)
                   THEN pc' = ProgramOrder("normalize") /\ exit_msg' = exit_msg
                   ELSE pc' = "crashed" /\ exit_msg' = ToCsvRaised
    /\ UNCHANGED <<prog, csv_before, backup_file, crawlVars, parseVars, dashVars>>

NextAppender == AppenderStart \/ AppenderBackup \/ AppenderRewrite

SpecAppender == InitAppender /\ [][NextAppender]_vars

----------------------------------------------------------------------------
(* Properties of appender.main *)

\* C7: the backup holding the file's previous contents is written before the input CSV
\* is rewritten: whenever the input path is opened for writing, and ever after, the
\* backup file exists and holds the rows the input file had when the script started.
C7_BackupBeforeRewrite ==
    /\ [](csv_writes > 0 => (backup_file.exists /\ backup_file = csv_before))
    /\ [][(csv_writes' > csv_writes \/ csv_file' # csv_file)
            => (backup_file.exists /\ backup_file = csv_before /\ backup_file' = backup_file)]_vars

C7_Witness ==
    /\ prog = "appender"
    /\ pc = "done"
    /\ csv_writes = 1
    /\ csv_file # csv_before
    /\ Len(csv_before.Size) = MaxRows
    /\ backup_file = csv_before
    /\ \E i \in 1..Len(csv_file.SizeAcres) : csv_file.SizeAcres[i].kind = "num"

\* C8: when the input CSV does not exist, or is a CSV with no Size column, main aborts at
\* its first step with the message of its SystemExit, writes no backup and leaves the
\* input file as it was.
C8_AbortsWithoutTouchingFiles ==
    (prog = "appender" /\ (~csv_before.exists \/ (csv_before.readable /\ ~csv_before.has_size)))
        => /\ pc \in {"start", "aborted"}
           /\ pc = "aborted" =>
                exit_msg = IF csv_before.exists THEN SizeNotFound ELSE FileNotFound
           /\ csv_file = csv_before
           /\ csv_writes = 0
           /\ backup_file = NoFile

C8_Witness ==
    /\ prog = "appender"
    /\ pc = "aborted"
    /\ csv_before = FileWithoutSize
    /\ csv_file = csv_before
    /\ exit_msg = SizeNotFound

C8_WitnessMissingFile ==
    /\ prog = "appender"
    /\ pc = "aborted"
    /\ ~csv_before.exists
    /\ exit_msg = FileNotFound

----------------------------------------------------------------------------
(* The dashboard's PDF panel (map_woodlands): find_local_pdf, fetch_pdf_to_folder, *)
(* the single fetch button and the bulk download                                  *)

MaxSubset == 2

\* the listings of f_sites: path of the URL and Name, per URL
UrlPath == [u \in Urls |->
              CASE u = "u1" -> <<"/", "w", "/", "a", "/">>
                [] u = "u2" -> <<"/", "w", "/", "o", "a", "k">>
                [] OTHER -> <<"/">>]

SiteName == [u \in Urls |->
               CASE u = "u1" -> <<"A", " ", "C", "o", "p", "s", "e">>
                 [] u = "u2" -> <<" ", "B", ".", " ">>
                 [] OTHER -> <<"-", " ", "-">>]

\* the characters of the file names
PdfFileName == [n \in PdfNames |-> IF n = "a.pdf" THEN <<"A", ".", "p", "d", "f">> ELSE <<"b", ".", "p", "d", "f">>]

RECURSIVE StripChar(_, _)
\* str.strip(c)
StripChar(t, c) ==
    IF t # <<>> /\ Head(t) = c THEN StripChar(Tail(t), c)
    ELSE IF t # <<>> /\ t[Len(t)] = c THEN StripChar(SubSeq(t, 1, Len(t) - 1), c)
    ELSE t

RECURSIVE LastPiece(_, _)
\* t.split(c)[-1] and Path(t).stem's cut at the last c
LastPiece(t, c) ==
    IF t = <<>> \/ t[Len(t)] = c THEN <<>>
    ELSE Append(LastPiece(SubSeq(t, 1, Len(t) - 1), c), t[Len(t)])

\* slug_from_url; <<>> stands for None, which find_local_pdf replaces by ""
slug_from_url(path) ==
    LET q == StripChar(path, "/")
    IN  IF q = <<>> THEN <<>> ELSE LastPiece(q, "/")

LowerAlnum == {"a", "b", "c", "d", "e", "f", "g", "h", "i", "j", "k", "l", "m", "n", "o", "p",
               "q", "r", "s", "t", "u", "v", "w", "x", "y", "z"} \cup Digits

RECURSIVE DashRuns(_)
\* re.sub(r"[^a-z0-9]+", "-", s)
DashRuns(t) ==
    IF t = <<>> THEN <<>>
    ELSE IF Head(t) \in LowerAlnum THEN <<Head(t)>> \o DashRuns(Tail(t))
    ELSE IF Len(t) > 1 /\ t[2] \notin LowerAlnum THEN DashRuns(Tail(t))
    ELSE <<"-">> \o DashRuns(Tail(t))

sanitize_name_for_match(name) == StripChar(DashRuns(Strip(Lower(name))), "-")

\* Path(p).stem
Stem(chars) ==
    LET ext == LastPiece(chars, ".")
    IN  IF Len(ext) + 1 >= Len(chars) THEN chars
        ELSE SubSeq(chars, 1, Len(chars) - Len(ext) - 1)

\* the files of PDFS_DIR whose lower-cased stem contains key
StemMatches(dir, key) ==
    {n \in PdfNames : dir[n] # Absent /\ Contains(Lower(Stem(PdfFileName[n])), key)}

\* find_local_pdf: the shortest candidate name (Absent stands for None)
find_local_pdf(u, dir) ==
    LET slug == Lower(slug_from_url(UrlPath[u]))
        by_slug == IF slug # <<>> THEN StemMatches(dir, slug) ELSE {}
        name_key == sanitize_name_for_match(SiteName[u])
        by_name == IF name_key # <<>> THEN StemMatches(dir, name_key) ELSE {}
        candidates == IF by_slug # {} THEN by_slug ELSE by_name
    IN  IF candidates = {} THEN Absent
        ELSE CHOOSE n \in candidates :
                \A o \in candidates : Len(PdfFileName[n]) <= Len(PdfFileName[o])

\* fetch_pdf_to_folder: [path, dir, gets]; path = Absent stands for None, gets are the
\* PDF URLs requested. d is the detail page, outcome the fate of the streamed PDF GET.
fetch_pdf_to_folder(d, dir, outcome) ==
    IF d.raised \/ RaisesForStatus(d.status) \/ d.pdf = Absent
    THEN [path |-> Absent, dir |-> dir, gets |-> <<>>]
    ELSE CASE outcome = "ok" ->
                [path |-> d.pdf, dir |-> [dir EXCEPT ![d.pdf] = "new"], gets |-> <<d.pdf>>]
           [] outcome = "partial" ->
                [path |-> Absent, dir |-> [dir EXCEPT ![d.pdf] = "partial"], gets |-> <<d.pdf>>]
           [] OTHER ->
                [path |-> Absent, dir |-> dir, gets |-> <<d.pdf>>]

RECURSIVE ArcNames(_, _)
\* the arcnames of the archive: <<name, k>> is name for k = 0 and base_k.ext otherwise
ArcNames(paths, used) ==
    IF paths = <<>> THEN <<>>
    ELSE LET name == Head(paths)
             k == CHOOSE j \in 0..Len(paths) + Cardinality(used) :
                    /\ <<name, j>> \notin used
                    /\ \A i \in 0..(j - 1) : <<name, i>> \in used
         IN  <<<<name, k>>>> \o ArcNames(Tail(paths), used \cup {<<name, k>>})

BulkCap == 30
MaxFiltered == 31

max_n_Uncapped(fs) == Len(fs)

\* max_n = min(30, len(f_sites))
max_n(fs) == Min(BulkCap, Len(fs))

\* the filtered lists: every short list, and lists about as long as the cap, of
\* listings whose brochure find_local_pdf finds when the folder holds every brochure
ShortLists == SeqsUpTo(Urls, MaxSubset)
LongLists == {[i \in 1..len |-> IF i % 2 = 1 THEN "u1" ELSE "u2"] : len \in (BulkCap - 1)..MaxFiltered}

InitDash ==
    /\ IdleCrawl /\ IdleParse /\ IdleAppender
    /\ prog = "dashboard"
    /\ pc = "idle"
    /\ \/ f_sites \in ShortLists /\ pdfs_dir \in [PdfNames -> {Absent, "old"}]
       \/ f_sites \in LongLists /\ pdfs_dir = [n \in PdfNames |-> "old"]
    /\ pdf_gets = <<>>
    /\ subset = <<>>
    /\ saved_paths = <<>>
    /\ errors = 0
    /\ zip_names = <<>>

\* lines 446-461: the button "Fetch PDF into folder (if missing)" for the chosen row;
\* the rerun of the script forgets the last bulk download
ClickFetch ==
    /\ prog = "dashboard"
    /\ pc = "idle"
    /\ \E i \in 1..Len(f_sites), d \in PdfPageResponses, outcome \in DownloadOutcomes :
        LET r == fetch_pdf_to_folder(d, pdfs_dir, outcome)
        IN  /\ pdfs_dir' = r.dir
            /\ pdf_gets' = r.gets
    /\ subset' = <<>>
    /\ saved_paths' = <<>>
    /\ errors' = 0
    /\ zip_names' = <<>>
    /\ UNCHANGED <<prog, pc, f_sites, crawlVars, parseVars, appenderVars>>

\* lines 470-489: the button "Fetch and bundle up to n PDFs", n from the number input
ClickBulk ==
    /\ prog = "dashboard"
    /\ pc = "idle"
    /\ f_sites # <<>>
    /\ \E n_to_fetch \in 1..max_n(f_sites) :
        subset' = SubSeq(f_sites, 1, Min(n_to_fetch, Len(f_sites)))
    /\ saved_paths' = <<>>
    /\ errors' = 0
    /\ zip_names' = <<>>
    /\ pdf_gets' = <<>>
    /\ pc' = "bulk"
    /\ UNCHANGED <<prog, f_sites, pdfs_dir, crawlVars, parseVars, appenderVars>>

\* lines 491-512: one iteration of the bulk loop
BulkStep ==
    /\ prog = "dashboard"
    /\ pc = "bulk"
    /\ Len(saved_paths) + errors < Len(subset)
    /\ LET u == subset[Len(saved_paths) + errors + 1]
           local == find_local_pdf(u, pdfs_dir)
       IN  IF local # Absent
           THEN /\ saved_paths' = Append(saved_paths, local)
                /\ pdf_gets' = <<>>
                /\ UNCHANGED <<pdfs_dir, errors>>
           ELSE \E d \in PdfPageResponses, outcome \in DownloadOutcomes :
                  LET r == fetch_pdf_to_folder(d, pdfs_dir, outcome)
                  IN  /\ pdfs_dir' = r.dir
                      /\ pdf_gets' = r.gets
                      /\ IF r.path # Absent
                         THEN saved_paths' = Append(saved_paths, r.path) /\ errors' = errors
                         ELSE saved_paths' = saved_paths /\ errors' = errors + 1
    /\ UNCHANGED <<prog, pc, f_sites, subset, zip_names, crawlVars, parseVars, appenderVars>>

\* lines 514-531: the archive
BulkZip ==
    /\ prog = "dashboard"
    /\ pc = "bulk"
    /\ Len(saved_paths) + errors = Len(subset)
    /\ zip_names' = ArcNames(saved_paths, {})
    /\ pdf_gets' = <<>>
    /\ pc' = "idle"
    /\ UNCHANGED <<prog, f_sites, pdfs_dir, subset, saved_paths, errors,
                   crawlVars, parseVars, appenderVars>>

NextDash == ClickFetch \/ ClickBulk \/ BulkStep \/ BulkZip

SpecDash == InitDash /\ [][NextDash]_vars

----------------------------------------------------------------------------
(* Properties of the PDF fetch flows *)

\* C5: a brochure PDF whose file name already exists in the target directory is treated
\* as already fetched: no step of a fetch flow requests it and the file keeps its content.
C5_ExistingPdfNotFetchedAgain ==
    [][\A f \in PdfNames :
          (prog = "dashboard" /\ pdfs_dir[f] # Absent)
              => /\ pdfs_dir'[f] = pdfs_dir[f]
                 /\ \A k \in 1..Len(pdf_gets') : pdf_gets'[k] # f]_vars

\* the part of C5 that is about the crawler: app.main never changes a file that exists
C5_CrawlerKeepsExistingPdf ==
    [][\A f \in PdfNames :
          (prog = "app" /\ save_dir[f] # Absent) => save_dir'[f] = save_dir[f]]_vars

----------------------------------------------------------------------------
(* parse_acres on texts of the form "[filler] n g acre(s)" *)

MaxWhole == 11

RECURSIVE Str(_)
\* str(n) of a whole number
Str(n) ==
    LET d == <<"0", "1", "2", "3", "4", "5", "6", "7", "8", "9">>
    IN  IF n < 10 THEN <<d[n + 1]>> ELSE Str(n \div 10) \o <<d[(n % 10) + 1]>>

\* the fluff words of line 20 as a listing writes them, and no fluff word
Fillers == {<<>>, <<"a", "b", "o", "u", "t", " ">>, <<"a", "p", "p", "r", "o", "x", " ">>, <<"a", "p", "p", "r", "o", "x", "i", "m", "a", "t", "e", "l", "y", " ">>, <<"o", "v", "e", "r", " ">>, <<"j", "u", "s", "t", " ", "o", "v", "e", "r", " ">>, <<"c", ".", " ">>, <<"O", "v", "e", "r", " ">>}

\* the values of FRACTIONS; "" stands for a text with no glyph
GlyphValue == [g \in {"{1/2}", "{1/4}", "{3/4}", "{1/3}", "{2/3}", ""} |->
                 CASE g = "{1/2}" -> MkRat(1, 2)
                   [] g = "{1/4}" -> MkRat(1, 4)
                   [] g = "{3/4}" -> MkRat(3, 4)
                   [] g = "{1/3}" -> MkRat(1, 3)
                   [] g = "{2/3}" -> MkRat(2, 3)
                   [] OTHER -> RatZero]

GlyphSeparators == {<<>>, <<" ">>, <<" ", " ">>}
AcreSuffixes == {<<" ", "a", "c", "r", "e", "s">>, <<" ", "a", "c", "r", "e">>, <<"a", "c", "r", "e", "s">>}

\* the texts "[filler] n g acre(s)", each with n and g
GlyphForms ==
    {[text |-> f \o Str(n) \o sep \o (IF g = "" THEN <<>> ELSE <<g>>) \o suf, n |-> n, g |-> g]
        : f \in Fillers, n \in 0..MaxWhole, g \in DOMAIN GlyphValue,
          sep \in GlyphSeparators, suf \in AcreSuffixes}

InitGlyph ==
    /\ IdleCrawl /\ IdleAppender /\ IdleDash
    /\ prog = "parse"
    /\ pc = "acres"
    /\ result = [fn |-> "none"]
    /\ dom = <<>>
    /\ IdleFrames
    /\ \E e \in GlyphForms : cell = Text(e.text)

NextGlyph == CallParseAcres

SpecGlyph == InitGlyph /\ [][NextGlyph]_vars

\* C11: parse_acres of "[filler] n g acre(s)" is n plus the value of the glyph g
\* (n itself when the text has no glyph).
C11_WholePlusGlyph ==
    pc = "returned" =>
        \A e \in GlyphForms :
            cell.chars = e.text =>
                result.val = Num(RatAdd(RatOfInt(e.n), GlyphValue[e.g]))

C11_Witness ==
    /\ pc = "returned"
    /\ cell = Text(<<"a", "b", "o", "u", "t", " ", "2", " ", "{1/2}", " ", "a", "c", "r", "e", "s">>)
    /\ result = [fn |-> "parse_acres", val |-> Num(MkRat(5, 2))]

----------------------------------------------------------------------------
(* Properties of parse_price_to_int *)

RECURSIVE ReadDigits(_, _)
\* the whole number written by the digit characters of t, read from left to right
\* after acc, every other character skipped
ReadDigits(t, acc) ==
    IF t = <<>> THEN acc
    ELSE IF Head(t) \in Digits THEN ReadDigits(Tail(t), 10 * acc + DigitVal[Head(t)])
    ELSE ReadDigits(Tail(t), acc)

\* C12: the price parser drops every non-digit character and returns the remaining
\* digits, in their order, as an integer-valued amount; a text with no digit and a
\* missing value give no value.
C12_PriceIsTheDigitsOfTheText ==
    (pc = "returned" /\ result.fn = "parse_price_to_int") =>
        IF cell.missing \/ ~HasDigit(cell.chars)
        THEN result.val = None
        ELSE /\ result.val.kind = "num"
             /\ result.val.val.d = 1
             /\ result.val.val.n = ReadDigits(cell.chars, 0)

C12_Witness ==
    /\ pc = "returned"
    /\ cell = Text(<<"L", "5", "9", ",", "0", "0", "0">>)
    /\ result = [fn |-> "parse_price_to_int", val |-> Num(RatOfInt(59000))]

----------------------------------------------------------------------------
(* Properties of extract_gps *)

\* the node is a list item whose text starts with "gps coordinates"
IsGpsItem(node) == node.li /\ StartsWith(Lower(Strip(node.text)), GpsPrefix)

\* value of the literal [-]digits.digits
LiteralValue(t) ==
    LET neg == CharAt(t, 1) = "-"
        u == IF neg THEN Tail(t) ELSE t
        dot == CHOOSE k \in 1..Len(u) : u[k] = "."
    IN  FloatOf(neg, SubSeq(u, 1, dot - 1), SubSeq(u, dot + 1, Len(u)))

\* every way to read s[i:l] as '<signed decimal> , <signed decimal>' with the comma
\* at c: <<i, c, l>>
PairReadings(s) ==
    UNION {LET lats == {i \in 1..(c - 1) : IsDecimalSlice(s, i, SpacesStart(s, c))}
               lons == {l \in (c + 1)..(Len(s) + 1) : IsDecimalSlice(s, SpacesEnd(s, c + 1), l)}
           IN  {<<i, c, l>> : i \in lats, l \in lons}
           : c \in {k \in 1..Len(s) : s[k] = ","}}

\* the first pair of s: the reading that starts first and, from there, runs longest
FirstReading(s) ==
    LET rs == PairReadings(s)
    IN  IF rs = {} THEN [lat |-> None, lon |-> None]
        ELSE LET r == CHOOSE x \in rs :
                        \A y \in rs : x[1] < y[1] \/ (x[1] = y[1] /\ x[3] >= y[3])
             IN  [lat |-> Num(LiteralValue(SubSeq(s, r[1], SpacesStart(s, r[2]) - 1))),
                  lon |-> Num(LiteralValue(SubSeq(s, SpacesEnd(s, r[2] + 1), r[3] - 1)))]

\* C13: extract_gps takes the first list item whose text starts with "gps coordinates"
\* (any case) and returns the first pair of that text, nothing when it holds none; only
\* when the page has no such item it returns the first pair of the whole page text.
C13_GpsSearchSpace ==
    (pc = "returned" /\ result.fn = "extract_gps") =>
        LET items == {k \in 1..Len(dom) : IsGpsItem(dom[k])}
        IN  IF items # {}
            THEN LET t == Strip(dom[CHOOSE k \in items : \A j \in items : k <= j].text)
                 IN  /\ result.val.gps_text = t
                     /\ result.val.lat = FirstReading(t).lat
                     /\ result.val.lon = FirstReading(t).lon
            ELSE /\ result.val.gps_text = <<>>
                 /\ result.val.lat = FirstReading(JoinTexts(dom)).lat
                 /\ result.val.lon = FirstReading(JoinTexts(dom)).lon

\* a gps item with no pair, on a page that holds a pair elsewhere
C13_Witness ==
    /\ pc = "returned"
    /\ result.fn = "extract_gps"
    /\ Len(dom) = 2
    /\ ~IsGpsItem(dom[1])
    /\ PairPresent(Strip(dom[1].text))
    /\ IsGpsItem(dom[2])
    /\ ~PairPresent(dom[2].text)
    /\ result.val.lat = None
    /\ result.val.lon = None

----------------------------------------------------------------------------
(* map_woodlands.annotate_min_distance_to_cities *)

MaxSites == 2
MaxCities == 3

\* Three places, A = (51.5, -0.25), B = (53.5, -2.25), C = (55.0, -3.5), stand for the
\* Latitude and Longitude of a row.
Places == {"A", "B", "C"}

\* haversine_miles between two places, in thousandths of a mile
HaversineMilli == [p \in Places, q \in Places |->
                     CASE p = q -> 0
                       [] {p, q} = {"A", "B"} -> 161763
                       [] {p, q} = {"A", "C"} -> 276573
                       [] OTHER -> 115267]

haversine_miles(p, q) == MkRat(HaversineMilli[p, q], 1000)

\* x < y on floats
RatLess(x, y) == x.n * y.d < y.n * x.d

\* a row of a frame that has no MinCityMiles column
NoColumn == [kind |-> "no column", val |-> RatZero]

\* the frames of listings: f_sites, with or without a MinCityMiles column already
SiteFrames ==
    {[i \in 1..Len(q) |-> [place |-> q[i], MinCityMiles |-> c]]
        : q \in SeqsUpTo(Places, MaxSites), c \in {NoColumn, None}}

\* the reference cities: None, or a frame of rows (possibly empty)
CityFrames ==
    {[is_none |-> TRUE, rows |-> <<>>]}
      \cup [is_none : {FALSE}, rows : SeqsUpTo(Places, MaxCities)]

Closer_Farther(d, md) == RatLess(md, d)

\* d < md
Closer(d, md) == RatLess(d, md)

RECURSIVE MinFold(_, _, _, _)
\* lines 216-219: the loop over cities_list from its k-th element on, md so far
MinFold(place, cities, k, md) ==
    IF k > Len(cities) THEN md
    ELSE LET d == haversine_miles(place, cities[k])
         IN  MinFold(place, cities, k + 1,
                     IF md = None \/ Closer(d, md.val) THEN Num(d) ELSE md)

annotate_min_distance_to_cities(sites, cities) ==
    IF cities.is_none \/ cities.rows = <<>>
    THEN [i \in 1..Len(sites) |-> [sites[i] EXCEPT !.MinCityMiles = None]]
    ELSE [i \in 1..Len(sites) |->
            [sites[i] EXCEPT !.MinCityMiles = MinFold(sites[i].place, cities.rows, 1, None)]]

InitFrames ==
    /\ IdleCrawl /\ IdleAppender /\ IdleDash
    /\ prog = "parse"
    /\ pc = "annotate"
    /\ cell = Missing
    /\ dom = <<>>
    /\ result = [fn |-> "none"]
    /\ sites_df \in SiteFrames
    /\ cities_df \in CityFrames

CallAnnotate ==
    /\ prog = "parse"
    /\ pc = "annotate"
    /\ result' = [fn |-> "annotate_min_distance_to_cities",
                  val |-> annotate_min_distance_to_cities(sites_df, cities_df)]
    /\ pc' = "returned"
    /\ UNCHANGED <<prog, cell, dom, sites_df, cities_df, crawlVars, appenderVars, dashVars>>

NextFrames == CallAnnotate

SpecFrames == InitFrames /\ [][NextFrames]_vars

\* C14: every listing gets the minimum of its distances to the reference cities (no
\* city is nearer and some city is at that distance); with no reference cities (None or
\* an empty frame) every MinCityMiles is absent; the rows are otherwise as they were.
C14_MinCityMilesIsTheMinimum ==
    (pc = "returned" /\ result.fn = "annotate_min_distance_to_cities") =>
        /\ Len(result.val) = Len(sites_df)
        /\ \A i \in 1..Len(sites_df) :
            /\ result.val[i].place = sites_df[i].place
            /\ IF cities_df.is_none \/ Len(cities_df.rows) = 0
               THEN result.val[i].MinCityMiles = None
               ELSE LET m == result.val[i].MinCityMiles
                        dist(k) == haversine_miles(sites_df[i].place, cities_df.rows[k])
                    IN  /\ m.kind = "num"
                        /\ \A k \in 1..Len(cities_df.rows) : ~RatLess(dist(k), m.val)
                        /\ \E k \in 1..Len(cities_df.rows) : dist(k) = m.val

\* the nearest city is neither the first nor the last of the list
C14_Witness ==
    /\ pc = "returned"
    /\ result.fn = "annotate_min_distance_to_cities"
    /\ Len(sites_df) = 2
    /\ sites_df[1].place = "A"
    /\ cities_df.rows = <<"C", "B", "C">>
    /\ result.val[1].MinCityMiles = Num(haversine_miles("A", "B"))

----------------------------------------------------------------------------
(* Properties of the bulk download *)

\* C15: a bulk download takes the first n rows of the filtered list, in order, with
\* 1 <= n <= min(30, number of filtered listings); it processes no more than these n
\* rows and the archive holds at most n entries.
C15_BulkTakesFirstRowsUpToCap ==
    (prog = "dashboard" /\ (pc = "bulk" \/ subset # <<>>)) =>
        /\ Len(subset) >= 1
        /\ Len(subset) <= BulkCap
        /\ Len(subset) <= Len(f_sites)
        /\ subset = SubSeq(f_sites, 1, Len(subset))
        /\ Len(saved_paths) + errors <= Len(subset)
        /\ Len(zip_names) <= Len(saved_paths)
        /\ Len(zip_names) <= Len(subset)

\* the list is longer than the cap and a full bulk download was bundled
C15_Witness ==
    /\ prog = "dashboard"
    /\ pc = "idle"
    /\ Len(f_sites) > BulkCap
    /\ Len(subset) = BulkCap
    /\ Len(zip_names) = BulkCap

----------------------------------------------------------------------------
(* Properties of the crawl loop *)

\* C16: within one run each detail-page URL is requested at most once, whether its
\* processing succeeded or failed: a URL is in the seen set from the step that requests
\* it, a URL in the seen set is never requested, and the seen set only grows.
C16_DetailPageRequestedAtMostOnce ==
    /\ [](\A u \in Urls : /\ n_tries[u] <= 1
                          /\ (n_tries[u] = 1 <=> u \in seen)
                          /\ (tried[u] # "no" <=> u \in seen))
    /\ [][/\ seen \subseteq seen'
          /\ \A u \in Urls : n_tries'[u] # n_tries[u] => (u \notin seen /\ u \in seen')]_vars

\* locations.main: u1 failed on page 1, page 2 lists it again and it was skipped
C16_Witness ==
    /\ prog = "locations"
    /\ pc = "items"
    /\ page = 2
    /\ detail_links[1] = "u1"
    /\ idx = 2
    /\ tried["u1"] = "failed"
    /\ n_tries["u1"] = 1
    /\ n_req = 3

SpecCrawlFair == SpecCrawl /\ WF_vars(NextCrawl)

\* under SpecCrawlFair a crawl that has stopped does write its output
C17_StoppedCrawlFinishes == (pc = "write") ~> (pc = "done")

----------------------------------------------------------------------------
(* The sign of parse_acres *)

\* C18: appender.parse_acres never returns a negative number: on every text that holds
\* a digit the mixed-fraction rule or the number-plus-fraction rule matches, so the
\* signed fallback is reached only on texts without a digit, where it finds nothing;
\* a minus sign before the number is not read. The value handed to math.sqrt in
\* main is therefore never negative.
C18_AcresNeverNegative ==
    (prog = "parse" /\ pc = "returned" /\ result.fn = "parse_acres") =>
        /\ result.val.kind = "num" => (result.val.val.n >= 0 /\ result.val.val.d > 0)
        /\ ~cell.missing =>
              LET s == Normalised(cell.chars)
              IN  /\ HasDigit(s) => (FirstMixed(s) # 0 \/ FirstNumPlus(s) # 0)
                  /\ (FirstMixed(s) = 0 /\ FirstNumPlus(s) = 0) =>
                        (SignedResult(s) = None /\ result.val = None)
                  /\ HasDigit(s) <=> result.val.kind = "num"
        /\ ~NormaliseRaises([Size |-> <<cell>>])

\* '-1 acres' was parsed as 1.0
C18_Witness ==
    /\ prog = "parse"
    /\ pc = "returned"
    /\ cell = Text(<<"-", "1", " ", "a", "c", "r", "e", "s">>)
    /\ result = [fn |-> "parse_acres", val |-> Num(RatOfInt(1))]

----------------------------------------------------------------------------
(* map_woodlands.parse_acres, the dashboard's fallback for a CSV without SizeAcres *)

\* for k, v in FRACTIONS.items(): s = s.replace(k, f"+{v}")
RECURSIVE MapReplaceGlyphs(_, _)
MapReplaceGlyphs(s, k) ==
    IF k > Len(FRACTIONS) THEN s
    ELSE MapReplaceGlyphs(Replace(s, <<FRACTIONS[k].sym>>, <<"+">> \o FRACTIONS[k].dec), k + 1)

\* lines 49-51: the text on which the two regexes search
MapNormalised(chars) ==
    MapReplaceGlyphs(Replace(Replace(Lower(chars), <<"a", "b", "o", "u", "t">>, <<>>), <<"a", "p", "p", "r", "o", "x">>, <<>>), 1)

\* match of (\d+(?:\.\d+)?)\s*(?:\+\s*(0\.\d+))? at i
MapNumPlusAt(s, i) ==
    LET a == DigitsEnd(s, i)
        a2 == IF CharAt(s, a) = "." /\ DigitsEnd(s, a + 1) > a + 1 THEN DigitsEnd(s, a + 1) ELSE a
        b == SpacesEnd(s, a2)
        c == SpacesEnd(s, b + 1)
        g == DigitsEnd(s, c + 2)
        has2 == CharAt(s, b) = "+" /\ CharAt(s, c) = "0" /\ CharAt(s, c + 1) = "." /\ g > c + 2
    IN  [ok |-> a > i,
         ip |-> Slice(s, i, a),
         fp |-> IF a2 > a THEN Slice(s, a + 1, a2) ELSE <<>>,
         has2 |-> has2,
         ip2 |-> IF has2 THEN Slice(s, c, c + 1) ELSE <<>>,
         fp2 |-> IF has2 THEN Slice(s, c + 2, g) ELSE <<>>]

MapFirstNumPlus(s) ==
    LET hits == {i \in 1..Len(s) : MapNumPlusAt(s, i).ok}
    IN  IF hits = {} THEN 0 ELSE CHOOSE i \in hits : \A j \in hits : i <= j

\* lines 53-59 when only the second regex matched: it has one group, so m.lastindex is 1
\* and m.group(2) raises IndexError
MapSignedResult(s) == IF FirstSigned(s) = 0 THEN None ELSE Raise

\* lines 52-60
MapApplyRules(s) ==
    IF MapFirstNumPlus(s) # 0 THEN NumPlusResult(MapNumPlusAt(s, MapFirstNumPlus(s)))
    ELSE MapSignedResult(s)

\* map_woodlands.parse_acres
map_parse_acres(text) ==
    IF text.missing THEN None
    ELSE MapApplyRules(MapNormalised(text.chars))

\* Size texts as the listings print them
SizeExamples == {Text(<<"1", " ", "3", "/", "4", " ", "a", "c", "r", "e", "s">>),
                 Text(<<"2", " ", "{1/2}", " ", "a", "c", "r", "e", "s">>),
                 Text(<<"a", "b", "o", "u", "t", " ", "5", " ", "a", "c", "r", "e", "s">>),
                 Text(<<"a", "p", "p", "r", "o", "x", "i", "m", "a", "t", "e", "l", "y", " ", "5", " ", "a", "c", "r", "e", "s">>),
                 Text(<<"J", "u", "s", "t", " ", "o", "v", "e", "r", " ", "3", ".", "5", " ", "a", "c", "r", "e", "s">>)}

SizeTexts == AcreTexts \cup SizeExamples

InitFallback ==
    /\ IdleCrawl /\ IdleAppender /\ IdleDash
    /\ prog = "parse"
    /\ pc = "acres"
    /\ result = [fn |-> "none"]
    /\ dom = <<>>
    /\ IdleFrames
    /\ cell \in SizeTexts

\* sites["SizeAcres"] = sites["Size"].apply(parse_acres), one cell of the column
CallMapParseAcres ==
    /\ prog = "parse"
    /\ pc = "acres"
    /\ result' = [fn |-> "map_woodlands.parse_acres", val |-> map_parse_acres(cell)]
    /\ pc' = "returned"
    /\ UNCHANGED <<prog, cell, dom, sites_df, cities_df, crawlVars, appenderVars, dashVars>>

NextFallback == CallMapParseAcres

SpecFallback == InitFallback /\ [][NextFallback]_vars

\* C19: the dashboard's parse_acres returns what appender.parse_acres returns, for
\* every Size text
C19_FallbackParserAgrees ==
    (prog = "parse" /\ pc = "returned" /\ result.fn = "map_woodlands.parse_acres") =>
        result.val = parse_acres(cell)

\* on the glyph, filler and plain forms of the listings the two parsers do agree
C19_AgreeOnListedForms ==
    (prog = "parse" /\ pc = "returned" /\ result.fn = "map_woodlands.parse_acres"
        /\ cell \in SizeExamples /\ FirstMixed(Normalised(cell.chars)) = 0) =>
        (result.val = parse_acres(cell) /\ result.val.kind = "num")

\* '1 3/4 acres' came out of the dashboard's parser as 1.0; the normalizer gives 1.75
C19_MixedFractionDiffers ==
    /\ prog = "parse"
    /\ pc = "returned"
    /\ cell = Text(<<"1", " ", "3", "/", "4", " ", "a", "c", "r", "e", "s">>)
    /\ result = [fn |-> "map_woodlands.parse_acres", val |-> Num(RatOfInt(1))]
    /\ parse_acres(cell) = Num(MkRat(7, 4))

====
